---- MODULE Spec2Model ----
(***************************************************************************)
(* State-machine model of src/server.py (SUMO MCP server).                 *)
(*                                                                         *)
(* The program keeps one module-level reference, _sumo_connection, and     *)
(* reaches the simulation backend only through the module-global traci     *)
(* client (traci.connect, traci.start, traci.close, traci.vehicle queries).  *)
(* The threads of the model are the lifespan context manager               *)
(* (server_lifespan) and the callers of the seven tool functions.  The     *)
(* source holds no lock, so every backend call is modelled as an interval  *)
(* (the step that issues it and the step that receives its outcome) and    *)
(* threads interleave between those steps.                                 *)
(***************************************************************************)
EXTENDS Naturals, FiniteSets, Sequences

(*************************** bounds of the model ***************************)
\* number of times the lifespan context manager is entered
MaxLifespans == 2

\* the requests of the run: each caller invokes one tool, at any time it likes
Callers == {"c1", "c2"}
\* the thread that runs server_lifespan
Lifespan == "lifespan"
Threads == Callers \cup {Lifespan}

\* vehicle identifiers a caller may pass; the backend knows only KnownIds
VehicleIds == {"", "v0", "missing"}
KnownIds == {"v0"}
\* answers of the backend (live values, re-read on every query)
Values == {"a", "b"}

(***************************** the program *********************************)
\* the seven tool functions
Ops == {"get_vehicles", "get_vehicle_speed", "get_vehicle_position",
        "get_vehicle_acceleration", "get_vehicle_lane", "get_vehicle_route",
        "get_vehicle_route_edges"}

\* the tools that take a vehicle_id
TakesId(o) == o # "get_vehicles"

\* a method pasted from its neighbour: get_vehicle_lane calls getRoute
TraciCallPasted(o) ==
    CASE o = "get_vehicles" -> "vehicle.getIDList"
      [] o = "get_vehicle_speed" -> "vehicle.getSpeed"
      [] o = "get_vehicle_position" -> "vehicle.getPosition"
      [] o = "get_vehicle_acceleration" -> "vehicle.getAcceleration"
      [] o = "get_vehicle_lane" -> "vehicle.getRoute"
      [] o = "get_vehicle_route" -> "vehicle.getRoute"
      [] o = "get_vehicle_route_edges" -> "vehicle.getRouteID"

\* the traci function the SUMOConnection method of each tool calls
TraciCall(o) ==
    CASE o = "get_vehicles" -> "vehicle.getIDList"
      [] o = "get_vehicle_speed" -> "vehicle.getSpeed"
      [] o = "get_vehicle_position" -> "vehicle.getPosition"
      [] o = "get_vehicle_acceleration" -> "vehicle.getAcceleration"
      [] o = "get_vehicle_lane" -> "vehicle.getLaneID"
      [] o = "get_vehicle_route" -> "vehicle.getRoute"
      [] o = "get_vehicle_route_edges" -> "vehicle.getRouteID"

\* _sumo_connection = None (line 136); the objects are numbered from 1
None == 0

(* outcomes of a call: nothing yet, a returned value, a raised exception.
   The exceptions are those of traci, logged and re-raised with a bare
   `raise`: nothing in the source attaches an operation name or a vehicle
   id to them ("-") *)
NoOutcome ==
    [kind |-> "none", value |-> "-", cause |-> "-",
     operation |-> "-", vehicleId |-> "-"]
Returned(v) ==
    [kind |-> "ok", value |-> v, cause |-> "-",
     operation |-> "-", vehicleId |-> "-"]
Raised(why) ==
    [kind |-> "raise", value |-> "-", cause |-> why,
     operation |-> "-", vehicleId |-> "-"]

VARIABLES
    sumo_connection,  \* the module-level _sumo_connection: None or an object id
    created,          \* number of SUMOConnection objects constructed so far
    pc,               \* position of every thread in its code
    op,               \* the tool each caller is running
    vid,              \* the vehicle_id argument of each caller
    bk,               \* outcome of the caller's last backend (traci) call
    result,           \* what the tool function gave its caller
    reachable,        \* environment: a backend listens at localhost:8813
    live,             \* traci holds an open connection
    failed,           \* history: the latest connect/start attempt failed
    since,            \* history: what happened to the connection most recently:
                      \* "opened", "closed" (the finally block ran to its end),
                      \* "close_failed", or "nothing" so far
    attempts,         \* traci.connect/traci.start calls each thread has made in
                      \* its current invocation (tool call or lifespan startup)
    issued,           \* the traci query functions each caller's tool has called
    lifespans,        \* number of times server_lifespan was entered
    direct            \* the tools are called as plain functions, without mcp.run()

vars == <<sumo_connection, created, pc, op, vid, bk, result, reachable, live,
          failed, since, attempts, issued, lifespans, direct>>

env == <<reachable, live>>
hist == <<failed, since>>
locals == <<op, vid, bk, result>>
trail == <<attempts, issued>>

\* a thread is inside a call on the traci client
InBackend(t) == pc[t] \in {"in_connect", "in_start", "in_query", "in_close"}

(* try/except/raise of the SUMOConnection.get_* methods: the value of the
   traci call is returned as it is, an exception is logged and re-raised *)
MethodWrap(o) == o

\* a tool whose except clause logs the exception and returns None
ToolWrapSwallow(o) ==
    IF o.kind = "ok" THEN Returned(o.value) ELSE Returned("-")

(* try/except/raise of the tool functions: the same, one level up *)
ToolWrap(o) ==
    IF o.kind = "ok" THEN Returned(o.value) ELSE Raised(o.cause)

InitCommon ==
    /\ sumo_connection = None
    /\ created = 0
    /\ pc = [t \in Threads |-> IF t = Lifespan THEN "off" ELSE "idle"]
    /\ op = [c \in Callers |-> "get_vehicles"]
    /\ vid = [c \in Callers |-> ""]
    /\ bk = [c \in Callers |-> NoOutcome]
    /\ result = [c \in Callers |-> NoOutcome]
    /\ reachable \in BOOLEAN
    /\ live = FALSE
    /\ failed = FALSE
    /\ since = "nothing"
    /\ attempts = [t \in Threads |-> 0]
    /\ issued = [c \in Callers |-> <<>>]
    /\ lifespans = 0

\* the server as main() runs it: mcp.run() enters the lifespan, then serves
Init == InitCommon /\ direct = FALSE

\* the tool functions called as plain module functions (no lifespan)
InitDirect == InitCommon /\ direct = TRUE

(************************** get_sumo_connection ****************************)
(* line 141: `if _sumo_connection is None` decides where the thread that
   enters get_sumo_connection goes: to the construction of the object (line
   143), or into the else branch, which calls traci.start (line 151) *)
GscCheck == IF sumo_connection = None THEN "new" ELSE "in_start"

(************************** server_lifespan ********************************)
\* lines 115-118: entering the lifespan calls get_sumo_connection()
LifespanEnter ==
    /\ pc[Lifespan] \in {"off", "shut_down", "raised"}
    /\ lifespans < MaxLifespans
    /\ lifespans' = lifespans + 1
    /\ pc' = [pc EXCEPT ![Lifespan] = GscCheck]
    /\ attempts' = [attempts EXCEPT ![Lifespan] = 0]
    /\ UNCHANGED <<sumo_connection, created, locals, env, hist, issued, direct>>

\* a lifespan without try/finally: an error thrown in at the yield skips shutdown
FinallyBlockSkippedOnError(how) ==
    IF how = "error" THEN "raised"
    ELSE IF sumo_connection # None THEN "in_close" ELSE "shut_down"

(* lines 115, 123-127: try/finally. However the serving ends (`how`: the
   runtime resumes the generator normally or throws an error in at the
   yield), the finally block runs.  `if _sumo_connection:` is true of every
   SUMOConnection object; disconnect() then calls traci.close() *)
FinallyBlock(how) ==
    IF sumo_connection # None THEN "in_close" ELSE "shut_down"

\* lines 122-127: the lifespan leaves its yield
LifespanExit ==
    /\ pc[Lifespan] = "serving"
    /\ \E how \in {"normal", "error"} :
          /\ pc' = [pc EXCEPT ![Lifespan] = FinallyBlock(how)]
          /\ since' = IF FinallyBlock(how) = "shut_down" THEN "closed" ELSE since
    /\ UNCHANGED <<sumo_connection, created, locals, env, failed, trail,
                   lifespans, direct>>

(* lines 37-45 and 127-128: traci.close() answers.  Closing without an open
   connection fails; closing an open one may fail too.  disconnect() re-raises,
   the finally block does not catch, so line 128 is reached only on success *)
CloseEnd ==
    /\ pc[Lifespan] = "in_close"
    /\ \E ok \in (IF live THEN BOOLEAN ELSE {FALSE}) :
          /\ live' = IF ok THEN FALSE ELSE live
          /\ pc' = [pc EXCEPT ![Lifespan] = IF ok THEN "shut_down" ELSE "raised"]
          /\ since' = IF ok THEN "closed" ELSE "close_failed"
    /\ UNCHANGED <<sumo_connection, created, locals, reachable, failed, trail,
                   lifespans, direct>>

(******************** get_sumo_connection, continued ***********************)
(* lines 143-144: the object is constructed and assigned first, then
   connect() dials; `created` thus also counts the traci.connect calls *)
GscCreate(t) ==
    /\ pc[t] = "new"
    /\ created' = created + 1
    /\ sumo_connection' = created + 1
    /\ pc' = [pc EXCEPT ![t] = "in_connect"]
    /\ UNCHANGED <<locals, env, failed, since, trail, lifespans, direct>>

\* a tool that calls get_sumo_connection again when it failed
AfterGscRetry(t, ok) ==
    IF t = Lifespan THEN "serving" ELSE IF ok THEN "in_query" ELSE "in_start"

\* a lifespan that lets the failure of its startup connect propagate
AfterGscStartupRaises(t, ok) ==
    IF t = Lifespan THEN (IF ok THEN "serving" ELSE "raised")
    ELSE IF ok THEN "in_query" ELSE "done"

(* where a thread goes when get_sumo_connection returns (line 156) or raises
   (lines 148, 155): the lifespan logs either way and yields (lines 119-122),
   a tool calls its SUMOConnection method on success and re-raises on failure *)
AfterGsc(t, ok) ==
    IF t = Lifespan THEN "serving" ELSE IF ok THEN "in_query" ELSE "done"

\* the caller's locals after get_sumo_connection ended with `ok`
GscLocals(t, ok, why) ==
    IF t = Lifespan \/ ok
    THEN UNCHANGED <<bk, result>>
    ELSE /\ bk' = [bk EXCEPT ![t] = Raised(why)]
         /\ result' = [result EXCEPT ![t] = ToolWrap(Raised(why))]

(* the record of the backend calls after a connect/start call ended and the
   thread moved to `next`: the call is counted, and a tool that goes on to its
   query (lines 164, 177, ...) calls the traci function of its method *)
GscTrail(t, next) ==
    /\ attempts' = [attempts EXCEPT ![t] = @ + 1]
    /\ issued' = IF next = "in_query"
                 THEN [issued EXCEPT ![t] = Append(@, TraciCall(op[t]))]
                 ELSE issued

\* a get_sumo_connection that sets _sumo_connection back to None when connect fails
ConnectEndResets(t) ==
    /\ pc[t] = "in_connect"
    /\ pc' = [pc EXCEPT ![t] = AfterGsc(t, reachable)]
    /\ live' = (live \/ reachable)
    /\ failed' = ~reachable
    /\ since' = IF reachable THEN "opened" ELSE since
    /\ GscLocals(t, reachable, "connect")
    /\ GscTrail(t, AfterGsc(t, reachable))
    /\ sumo_connection' = IF reachable THEN sumo_connection ELSE None
    /\ UNCHANGED <<created, op, vid, reachable, lifespans, direct>>

\* lines 27-35: traci.connect(host, port) answers: it succeeds iff reachable
ConnectEnd(t) ==
    /\ pc[t] = "in_connect"
    /\ pc' = [pc EXCEPT ![t] = AfterGsc(t, reachable)]
    /\ live' = (live \/ reachable)
    /\ failed' = ~reachable
    /\ since' = IF reachable THEN "opened" ELSE since
    /\ GscLocals(t, reachable, "connect")
    /\ GscTrail(t, AfterGsc(t, reachable))
    /\ UNCHANGED <<sumo_connection, created, op, vid, reachable, lifespans, direct>>

(* lines 150-155: traci.start([...]) answers; it launches a simulation
   process of its own, so its outcome does not depend on `reachable` *)
StartEnd(t) ==
    /\ pc[t] = "in_start"
    /\ \E ok \in BOOLEAN :
          /\ pc' = [pc EXCEPT ![t] = AfterGsc(t, ok)]
          /\ live' = (live \/ ok)
          /\ failed' = ~ok
          /\ since' = IF ok THEN "opened" ELSE since
          /\ GscLocals(t, ok, "start")
          /\ GscTrail(t, AfterGsc(t, ok))
    /\ UNCHANGED <<sumo_connection, created, op, vid, reachable, lifespans, direct>>

(****************************** the tools **********************************)
(* a tool is invoked and calls get_sumo_connection (lines 159-163, 172-176,
   ...): under mcp.run() only while the lifespan is at its yield *)
Call(c) ==
    /\ pc[c] = "idle"
    /\ direct \/ pc[Lifespan] = "serving"
    /\ \E o \in Ops : \E v \in VehicleIds :
          /\ (~TakesId(o)) => v = ""
          /\ op' = [op EXCEPT ![c] = o]
          /\ vid' = [vid EXCEPT ![c] = v]
    /\ pc' = [pc EXCEPT ![c] = GscCheck]
    /\ UNCHANGED <<sumo_connection, created, bk, result, env, hist, trail,
                   lifespans, direct>>

(* the answers traci function f can give for vehicle_id v: an exception when
   no connection is open or when the id is unknown to the simulation (the id
   list takes no id), else a value *)
BackendAnswers(f, v) ==
    IF ~live THEN {Raised("not_connected")}
    ELSE IF f # "vehicle.getIDList" /\ v \notin KnownIds THEN {Raised("unknown_id")}
    ELSE {Returned(x) : x \in Values}

\* lines 47-109 and 164-169, 177-182, ...: the traci query answers
QueryEnd(c) ==
    /\ pc[c] = "in_query"
    /\ \E a \in BackendAnswers(TraciCall(op[c]), vid[c]) :
          /\ bk' = [bk EXCEPT ![c] = a]
          /\ result' = [result EXCEPT ![c] = ToolWrap(MethodWrap(a))]
    /\ pc' = [pc EXCEPT ![c] = "done"]
    /\ UNCHANGED <<sumo_connection, created, op, vid, env, hist, trail, lifespans,
                   direct>>

(**************************** the environment ******************************)
\* the backend process at localhost:8813 comes up or goes away
BackendToggle ==
    /\ reachable' = ~reachable
    /\ UNCHANGED <<sumo_connection, created, pc, locals, live, hist, trail,
                   lifespans, direct>>

\* the peer drops the open connection
PeerDrop ==
    /\ live
    /\ live' = FALSE
    /\ UNCHANGED <<sumo_connection, created, pc, locals, reachable, hist, trail,
                   lifespans, direct>>

Next ==
    \/ LifespanEnter
    \/ LifespanExit
    \/ CloseEnd
    \/ \E t \in Threads : GscCreate(t)
    \/ \E t \in Threads : ConnectEnd(t)
    \/ \E t \in Threads : StartEnd(t)
    \/ \E c \in Callers : Call(c)
    \/ \E c \in Callers : QueryEnd(c)
    \/ BackendToggle
    \/ PeerDrop

NextDirect ==
    \/ \E c \in Callers : GscCreate(c)
    \/ \E c \in Callers : ConnectEnd(c)
    \/ \E c \in Callers : StartEnd(c)
    \/ \E c \in Callers : Call(c)
    \/ \E c \in Callers : QueryEnd(c)
    \/ BackendToggle
    \/ PeerDrop

Spec == Init /\ [][Next]_vars

SpecDirect == InitDirect /\ [][NextDirect]_vars

TypeOK ==
    /\ sumo_connection \in {None} \cup (1..created)
    /\ created \in 0..(Cardinality(Callers) + 1)
    /\ pc \in [Threads -> {"off", "idle", "new", "in_connect", "in_start",
                           "serving", "in_query", "done", "in_close",
                           "shut_down", "raised"}]
    /\ op \in [Callers -> Ops]
    /\ vid \in [Callers -> VehicleIds]
    /\ reachable \in BOOLEAN /\ live \in BOOLEAN
    /\ failed \in BOOLEAN
    /\ since \in {"nothing", "opened", "closed", "close_failed"}
    /\ attempts \in [Threads -> {0, 1}]
    /\ \A c \in Callers : Len(issued[c]) <= 1
    /\ lifespans \in 0..MaxLifespans

(***************************************************************************)
(* The connection state of the specification, read off the program: a      *)
(* connection is open (Connected), the latest attempt to open one failed   *)
(* (Failed), or neither (Disconnected).                                    *)
(***************************************************************************)
ConnectionState ==
    IF live THEN "Connected" ELSE IF failed THEN "Failed" ELSE "Disconnected"

\* caller c enters its tool, and with it get_sumo_connection, in this step
Enters(c) == pc[c] = "idle" /\ pc'[c] # "idle"

(***************************************************************************)
(* C1: with callers invoking tools concurrently, at most one of their      *)
(* operations that touch the traci client (a connect, a start, a query)    *)
(* is in progress at any time.                                             *)
(***************************************************************************)
C1_MutualExclusion == Cardinality({c \in Callers : InBackend(c)}) <= 1

(***************************************************************************)
(* C2: Failed is not terminal: a tool invoked while the state is Failed    *)
(* dials host:port again, i.e. its get_sumo_connection takes the path to   *)
(* traci.connect (and a failed call leaves its caller with an exception).  *)
(***************************************************************************)
C2_FailedRetriesDial ==
    [][\A c \in Callers :
          (Enters(c) /\ ConnectionState = "Failed") => pc'[c] = "new"]_vars

(***************************************************************************)
(* C3: get_sumo_connection is idempotent while Connected: a tool invoked   *)
(* after a successful connect goes on to its query with the client in      *)
(* place, issuing no connect and no start action.                          *)
(***************************************************************************)
C3_IdempotentWhileConnected ==
    [][\A c \in Callers :
          (Enters(c) /\ ConnectionState = "Connected" /\ sumo_connection # None)
             => pc'[c] \notin {"new", "in_connect", "in_start"}]_vars

(***************************************************************************)
(* C4: a tool invoked while no connection object exists dials (and with    *)
(* the backend reachable that one connect succeeds); a tool invoked later  *)
(* in the run, after a connection has been opened, issues no further       *)
(* connect (or start) action.                                              *)
(***************************************************************************)
C4_ConnectOnce ==
    [][\A c \in Callers :
          Enters(c) =>
             /\ sumo_connection = None => pc'[c] = "new"
             /\ since = "opened" =>
                   pc'[c] \notin {"new", "in_connect", "in_start"}]_vars

(***************************************************************************)
(* C5: a tool given the empty vehicle_id makes no backend call of any      *)
(* kind (no connect, no start, no query) and ends with an exception.       *)
(***************************************************************************)
C5_EmptyIdNoBackendCall ==
    \A c \in Callers :
        (TakesId(op[c]) /\ vid[c] = "")
           => /\ pc[c] \notin {"new", "in_connect", "in_start", "in_query"}
              /\ pc[c] = "done" => result[c].kind = "raise"

(***************************************************************************)
(* C6: shutdown is idempotent: when the finally block has run to its end   *)
(* and runs again with no connection opened in between, the second run     *)
(* issues no close call and does not raise.                                *)
(***************************************************************************)
C6_SecondShutdownNoop ==
    since = "closed" => pc[Lifespan] \notin {"in_close", "raised"}

(***************************************************************************)
(* C7: shutdown never propagates a failure: the finally block always       *)
(* reaches its last line ("shut down") and never ends in an exception.     *)
(***************************************************************************)
C7_ShutdownNeverRaises == pc[Lifespan] # "raised"

(***************************************************************************)
(* C8: at most one client exists: callers racing while Disconnected        *)
(* construct one SUMOConnection and dial once, and at most one dial is in  *)
(* progress.                                                               *)
(***************************************************************************)
C8_SingleClient ==
    /\ created <= 1
    /\ Cardinality({t \in Threads : pc[t] = "in_connect"}) <= 1

(***************************************************************************)
(* C9: the close of shutdown is never in progress while a query is         *)
(* between the start and the end of its backend call.                      *)
(***************************************************************************)
C9_NoCloseDuringQuery ==
    pc[Lifespan] = "in_close" => \A c \in Callers : pc[c] # "in_query"

(***************************************************************************)
(* C10: a finished tool returns exactly the value the backend returned     *)
(* when its backend call succeeded, and ends in an exception whenever its  *)
(* connect/start step or its backend call failed; it never returns a       *)
(* value after a failure.                                                  *)
(***************************************************************************)
C10_ResultsFaithful ==
    \A c \in Callers :
        pc[c] = "done" =>
            /\ bk[c].kind \in {"ok", "raise"}
            /\ bk[c].kind = "ok" => result[c] = Returned(bk[c].value)
            /\ bk[c].kind = "raise" =>
                  result[c].kind = "raise" /\ result[c].cause = bk[c].cause
            /\ result[c].kind = "ok" => bk[c].kind = "ok"

\* both cases of C10 happen: a value returned, and failures surfaced
C10_Witness ==
    \E c, d \in Callers :
        /\ pc[c] = "done" /\ result[c] = Returned("b")
        /\ pc[d] = "done" /\ result[d].kind = "raise"
        /\ result[d].cause \in {"start", "unknown_id", "not_connected"}
(***************************************************************************)
(* C11: a failure reaches the caller as one of three kinds; a query the    *)
(* backend rejected (unknown vehicle id) reaches it as a QueryError that   *)
(* carries the name of the operation and the vehicle id of the query.      *)
(***************************************************************************)
C11_QueryErrorCarriesContext ==
    \A c \in Callers :
        (pc[c] = "done" /\ vid[c] # "" /\ bk[c] = Raised("unknown_id"))
           => /\ result[c].kind = "raise"
              /\ result[c].operation = op[c]
              /\ result[c].vehicleId = vid[c]
(***************************************************************************)
(* C12: the else branch of get_sumo_connection, which starts a simulation  *)
(* process with traci.start, is never executed by any thread.              *)
(***************************************************************************)
C12_StartBranchDead == \A t \in Threads : pc[t] # "in_start"

\* the lifespan leaves its yield and runs the finally block in this step
ShutsDown == pc[Lifespan] = "serving" /\ pc'[Lifespan] # "serving"

(***************************************************************************)
(* C13: shutdown issues a close call exactly when a connection is open     *)
(* (state Connected): none after a connect that never succeeded, nor does  *)
(* it raise then; one while Connected, after which nothing is open.        *)
(***************************************************************************)
C13_CloseOnlyWhenConnected ==
    [][/\ ShutsDown => (pc'[Lifespan] = "in_close" <=> live)
       /\ (ShutsDown /\ ~live) => pc'[Lifespan] = "shut_down"
       /\ (pc[Lifespan] = "in_close" /\ pc'[Lifespan] = "shut_down") => ~live'
      ]_vars

(***************************************************************************)
(* C14: once a query has failed because the connection is no longer open   *)
(* (dropped by the peer), the state is Failed and the next tool invoked    *)
(* dials again instead of reusing the dead connection.                     *)
(***************************************************************************)
C14_DroppedConnectionRedials ==
    [][\A c, d \in Callers :
          (Enters(c) /\ pc[d] = "done" /\ bk[d] = Raised("not_connected") /\ ~live)
             => ConnectionState = "Failed" /\ pc'[c] = "new"]_vars
(***************************************************************************)
(* C15: shutdown is always attempted: whenever the lifespan leaves its     *)
(* yield, normally or with an error, and whatever the tools returned, the  *)
(* finally block runs; the lifespan ends, and is entered again, only       *)
(* through it.                                                             *)
(***************************************************************************)
C15_ShutdownAlwaysAttempted ==
    [][/\ ShutsDown => pc'[Lifespan] \in {"in_close", "shut_down"}
       /\ (pc'[Lifespan] = "raised" /\ pc[Lifespan] # "raised")
             => pc[Lifespan] = "in_close"
       /\ lifespans' # lifespans => pc[Lifespan] \in {"off", "shut_down", "raised"}
      ]_vars

\* the shutdown runs although the most recent tool call failed
C15_Witness ==
    /\ pc[Lifespan] = "in_close"
    /\ \E c \in Callers : pc[c] = "done" /\ result[c].kind = "raise"

\* the operation of the specification (sections 2 and 6) each tool stands for
SpecOperation(o) ==
    CASE o = "get_vehicles" -> "listVehicles"
      [] o = "get_vehicle_speed" -> "getSpeed"
      [] o = "get_vehicle_position" -> "getPosition"
      [] o = "get_vehicle_acceleration" -> "getAcceleration"
      [] o = "get_vehicle_lane" -> "getLane"
      [] o = "get_vehicle_route" -> "getRoute"
      [] o = "get_vehicle_route_edges" -> "getRouteId"

\* the capability of the specification's SimulationClient a traci function is
Capability(f) ==
    CASE f = "vehicle.getIDList" -> "listVehicles"
      [] f = "vehicle.getSpeed" -> "getSpeed"
      [] f = "vehicle.getPosition" -> "getPosition"
      [] f = "vehicle.getAcceleration" -> "getAcceleration"
      [] f = "vehicle.getLaneID" -> "getLane"
      [] f = "vehicle.getRoute" -> "getRoute"
      [] f = "vehicle.getRouteID" -> "getRouteId"

\* get_sumo_connection raised in caller c's invocation
GscFailed(c) == pc[c] = "done" /\ bk[c].cause \in {"connect", "start"}

C17_NoRetry ==
    /\ [](/\ \A t \in Threads : attempts[t] <= 1
          /\ \A c \in Callers : Len(issued[c]) <= 1)
    /\ [][\A c \in Callers :
             pc[c] = "done" =>
                /\ pc'[c] = "done"
                /\ attempts'[c] = attempts[c]
                /\ issued'[c] = issued[c]]_vars

\* a tool ended in failure after its single attempt, while the other goes on
C17_Witness ==
    \E c, d \in Callers :
        /\ pc[c] = "done" /\ bk[c] = Raised("start")
        /\ attempts[c] = 1 /\ issued[c] = <<>>
        /\ pc[d] = "done" /\ bk[d] = Raised("not_connected")
        /\ attempts[d] = 1 /\ Len(issued[d]) = 1

(***************************************************************************)
(* C18: startup never fails because of the backend: the lifespan makes     *)
(* one attempt at start, and whether it succeeds or fails the lifespan     *)
(* reaches its yield, where tools can be invoked.                          *)
(***************************************************************************)
C18_StartupNeverFails ==
    /\ [](pc[Lifespan] = "serving" => attempts[Lifespan] = 1)
    /\ [][(pc[Lifespan] \in {"in_connect", "in_start"}
             /\ pc'[Lifespan] # pc[Lifespan])
               => pc'[Lifespan] = "serving"]_vars

\* the startup connect failed and a tool is invoked all the same
C18_Witness ==
    /\ pc[Lifespan] = "serving" /\ lifespans = 1
    /\ failed /\ ~live /\ since = "nothing"
    /\ \E c \in Callers : pc[c] = "in_start"

====
